---- MODULE Spec2Model ----
(***************************************************************************)
(* A model of the ORACLE service: the document chunker                     *)
(* (services/chunking.py), the per-tenant indexer over the vector store    *)
(* (services/indexing.py) and the two-stage retriever (services/search.py, *)
(* models/reranker.py), and the command loop of the knowledge-base bridge  *)
(* (src/oracle/oracle_bridge.py).                                          *)
(*                                                                         *)
(* Texts are sequences of one-character strings over a small alphabet that *)
(* has one member of every character class the code distinguishes.        *)
(***************************************************************************)
EXTENDS Integers, Sequences, FiniteSets, TLC

VARIABLES
    \* ---- chunker (one chunk_text call) ----
    cfg,        \* the ChunkingService fields: chunk_size, chunk_overlap, max_chunks
    doc,        \* the arguments of chunk_text: text, metadata, doc_id
    cpc,        \* "ready" before the call, "done" after it returned
    chunks,     \* the list chunk_text returned
    \* ---- vector store and per-tenant indexers ----
    colls,      \* the persistent store: collection name -> NoCollection or [id, rows]
    nextId,     \* the number of collections the store has created so far
    services,   \* _indexing_services: brand -> NoService or the service's fields
    last,       \* the last request handled and what it returned
    \* ---- retriever (one search call) ----
    reranker,   \* SearchService.reranker is set (configured and loaded)
    query,      \* the arguments of the call and what the providers answer to it
    spc,        \* "ready" before the call, "done" after it ended
    found,      \* how the call ended and the hits it returned
    \* ---- the service caches under concurrent callers ----
    threads,    \* per caller: where it is in get_*_service and its local values
    registry,   \* _indexing_services, _search_services and what was made and handed out
    \* ---- oracle_bridge (the command loop) ----
    stdin,      \* the lines the process is given on its standard input
    stdout,     \* the response lines written so far
    bridge      \* the loop: lines consumed, still running, and the collection

chunkVars == <<cfg, doc, cpc, chunks>>
storeVars == <<colls, nextId, services, last>>
searchVars == <<reranker, query, spc, found>>
cacheVars == <<threads, registry>>
bridgeVars == <<stdin, stdout, bridge>>
vars == <<cfg, doc, cpc, chunks, colls, nextId, services, last, reranker, query, spc, found,
          threads, registry, stdin, stdout, bridge>>

(***************************************************************************)
(* Characters                                                              *)
(***************************************************************************)
SP == " "          \* the space
NL == "\n"         \* a newline: whitespace other than the space
CTRL == "^"        \* a control character of [\x00-\x08] (not whitespace)
Alphabet == {"a", ".", "!", SP, NL, CTRL}

\* Python's \s and str.strip() whitespace
IsSpace(c) == c \in {SP, NL}
\* the class [\x00-\x08\x0B-\x0C\x0E-\x1F\x7F] of _clean_text, as far as it
\* survives the whitespace pass
IsControl(c) == c = CTRL
\* the class [.!?] of the sentence splitter
IsTerminator(c) == c \in {".", "!", "?"}

(***************************************************************************)
(* Bounds                                                                  *)
(***************************************************************************)
MaxDocLen == 5
MaxChunkSize == 2

Texts == UNION {[1..n -> Alphabet] : n \in 0..MaxDocLen}

(***************************************************************************)
(* String helpers (Python str / re semantics)                              *)
(***************************************************************************)
Min(a, b) == IF a < b THEN a ELSE b
Max(a, b) == IF a > b THEN a ELSE b

\* s[i:] with 1-based i, "" when i > len
Drop(s, n) == SubSeq(s, n + 1, Len(s))
Take(s, n) == SubSeq(s, 1, Min(n, Len(s)))

RECURSIVE LStrip(_)
LStrip(s) == IF s # <<>> /\ IsSpace(Head(s)) THEN LStrip(Tail(s)) ELSE s

RECURSIVE RStrip(_)
RStrip(s) ==
    IF s # <<>> /\ IsSpace(s[Len(s)]) THEN RStrip(SubSeq(s, 1, Len(s) - 1)) ELSE s

\* str.strip()
Strip(s) == RStrip(LStrip(s))

\* re.sub(r'\s+', ' ', text)
RECURSIVE CollapseWhitespace(_)
CollapseWhitespace(s) ==
    IF s = <<>> THEN <<>>
    ELSE IF IsSpace(Head(s))
         THEN <<SP>> \o CollapseWhitespace(LStrip(s))
         ELSE <<Head(s)>> \o CollapseWhitespace(Tail(s))

\* re.sub(r'[\x00-\x08\x0B-\x0C\x0E-\x1F\x7F]', '', text)
RECURSIVE RemoveControl(_)
RemoveControl(s) ==
    IF s = <<>> THEN <<>>
    ELSE IF IsControl(Head(s)) THEN RemoveControl(Tail(s))
         ELSE <<Head(s)>> \o RemoveControl(Tail(s))

\* a normalization that leaves the whitespace as it is
clean_text_keeps_whitespace(text) == Strip(RemoveControl(text))

\* ChunkingService._clean_text
clean_text(text) == Strip(RemoveControl(CollapseWhitespace(text)))

\* s.startswith(sep)
StartsWith(s, sep) == Len(s) >= Len(sep) /\ SubSeq(s, 1, Len(sep)) = sep

\* str.split(sep): the list of pieces, scanning left to right
RECURSIVE SplitOn(_, _, _)
SplitOn(s, sep, piece) ==
    IF s = <<>> THEN <<piece>>
    ELSE IF StartsWith(s, sep)
         THEN <<piece>> \o SplitOn(Drop(s, Len(sep)), sep, <<>>)
         ELSE SplitOn(Tail(s), sep, Append(piece, Head(s)))

\* sep.join(pieces)
RECURSIVE Join(_, _)
Join(sep, pieces) ==
    IF pieces = <<>> THEN <<>>
    ELSE IF Len(pieces) = 1 THEN pieces[1]
         ELSE pieces[1] \o sep \o Join(sep, Tail(pieces))

\* pieces[-n:]
LastN(pieces, n) == SubSeq(pieces, Max(1, Len(pieces) - n + 1), Len(pieces))

\* number of leading newlines
RECURSIVE NewlineRun(_)
NewlineRun(s) == IF s # <<>> /\ Head(s) = NL THEN 1 + NewlineRun(Tail(s)) ELSE 0

\* re.split(r'\n\n+', text)
RECURSIVE SplitParagraphs(_, _)
SplitParagraphs(s, piece) ==
    IF s = <<>> THEN <<piece>>
    ELSE IF NewlineRun(s) >= 2
         THEN <<piece>> \o SplitParagraphs(Drop(s, NewlineRun(s)), <<>>)
         ELSE SplitParagraphs(Tail(s), Append(piece, Head(s)))

\* re.split(r'(?<=[.!?])\s+', text): a whitespace run is a separator when the
\* character before its first character is a sentence terminator
RECURSIVE SplitSentences(_, _)
SplitSentences(s, piece) ==
    IF s = <<>> THEN <<piece>>
    ELSE IF IsSpace(Head(s)) /\ piece # <<>> /\ IsTerminator(piece[Len(piece)])
         THEN <<piece>> \o SplitSentences(LStrip(s), <<>>)
         ELSE SplitSentences(Tail(s), Append(piece, Head(s)))

(***************************************************************************)
(* ChunkingService                                                         *)
(***************************************************************************)
\* current_chunk[-self.chunk_overlap:]  (chunk_overlap > 0)
Tail_overlap(current, overlap) == Drop(current, Max(0, Len(current) - overlap))

\* the loop of _semantic_chunk over the paragraphs, then "Add final chunk"
RECURSIVE SemanticLoop(_, _, _, _)
SemanticLoop(paragraphs, out, current, c) ==
    IF paragraphs = <<>>
    THEN IF current # <<>> THEN Append(out, Strip(current)) ELSE out
    ELSE LET para == Strip(Head(paragraphs))
             rest == Tail(paragraphs)
         IN  IF para = <<>> THEN SemanticLoop(rest, out, current, c)
             ELSE IF current # <<>> /\ Len(current) + Len(para) > c.chunk_size
                  THEN SemanticLoop(rest, Append(out, Strip(current)),
                                    Tail_overlap(current, c.chunk_overlap) \o <<SP>> \o para, c)
                  ELSE IF current # <<>>
                       THEN SemanticLoop(rest, out, current \o <<NL, NL>> \o para, c)
                       ELSE SemanticLoop(rest, out, para, c)

\* a _semantic_chunk that returns a text that fits as it is, without the
\* paragraph loop and its skip of empty paragraphs
semantic_chunk_fastpath(text, c) ==
    IF Len(text) <= c.chunk_size THEN <<text>>
    ELSE SemanticLoop(SplitParagraphs(text, <<>>), <<>>, <<>>, c)

\* ChunkingService._semantic_chunk
semantic_chunk(text, c) == SemanticLoop(SplitParagraphs(text, <<>>), <<>>, <<>>, c)

\* '. '.join(current_chunk.split('. ')[-2:])
overlap_sentences(current) == Join(<<".", SP>>, LastN(SplitOn(current, <<".", SP>>, <<>>), 2))

\* the loop of _split_by_sentences over the sentences, then "Add final chunk"
RECURSIVE SentenceLoop(_, _, _, _)
SentenceLoop(sentences, out, current, c) ==
    IF sentences = <<>>
    THEN IF current # <<>> THEN Append(out, Strip(current)) ELSE out
    ELSE LET sentence == Head(sentences)
             rest == Tail(sentences)
         IN  IF Strip(sentence) = <<>> THEN SentenceLoop(rest, out, current, c)
             ELSE IF current # <<>> /\ Len(current) + Len(sentence) > c.chunk_size
                  THEN SentenceLoop(rest, Append(out, Strip(current)),
                                    overlap_sentences(current) \o <<SP>> \o sentence, c)
                  ELSE IF current # <<>>
                       THEN SentenceLoop(rest, out, current \o <<SP>> \o sentence, c)
                       ELSE SentenceLoop(rest, out, sentence, c)

\* a _split_by_sentences without its "Add final chunk" step
split_by_sentences_no_final(text, c) ==
    LET all == SentenceLoop(SplitSentences(text, <<>>), <<>>, <<>>, c)
    IN  SubSeq(all, 1, Len(all) - 1)

\* ChunkingService._split_by_sentences
split_by_sentences(text, c) == SentenceLoop(SplitSentences(text, <<>>), <<>>, <<>>, c)

\* a guard that sends every chunk longer than chunk_size to the sentence pass
Oversize_above_chunk_size(chunk, c) == Len(chunk) > c.chunk_size

\* len(chunk_text) > self.chunk_size * 1.5
Oversize(chunk, c) == 2 * Len(chunk) > 3 * c.chunk_size

\* the oversize pass of chunk_text: final_chunks before the limit
RECURSIVE OversizePass(_, _)
OversizePass(cs, c) ==
    IF cs = <<>> THEN <<>>
    ELSE (IF Oversize(Head(cs), c) THEN split_by_sentences(Head(cs), c) ELSE <<Head(cs)>>)
         \o OversizePass(Tail(cs), c)

\* final_chunks of chunk_text for a text that passed the blank test, before
\* "Limit number of chunks"
untruncated_chunks(text, c) == OversizePass(semantic_chunk(clean_text(text), c), c)

\* a limit that keeps the last max_chunks chunks: final_chunks[-self.max_chunks:]
limit_chunks_last(fc, c) == IF Len(fc) > c.max_chunks THEN LastN(fc, c.max_chunks) ELSE fc

\* "Limit number of chunks": final_chunks[:self.max_chunks]
limit_chunks(fc, c) == IF Len(fc) > c.max_chunks THEN SubSeq(fc, 1, c.max_chunks) ELSE fc

\* the running offset of chunk_text's last loop: the lengths of the chunks before idx
RECURSIVE OffsetBefore(_, _)
OffsetBefore(fc, idx) == IF idx = 0 THEN 0 ELSE OffsetBefore(fc, idx - 1) + Len(fc[idx])

\* f"{doc_id}_chunk_{idx}"
chunk_id_of(doc_id, idx) == <<doc_id, "_chunk_", idx>>

\* the dict built in the other order, caller's keys last:
\* {"chunk_index": idx, "total_chunks": ..., "doc_id": doc_id, **metadata}
chunk_metadata_caller_last(metadata, idx, total, doc_id) ==
    [k \in DOMAIN metadata \cup {"chunk_index", "total_chunks", "doc_id"} |->
        IF k \in DOMAIN metadata THEN metadata[k]
        ELSE CASE k = "chunk_index" -> idx
               [] k = "total_chunks" -> total
               [] OTHER -> doc_id]

\* {**metadata, "chunk_index": idx, "total_chunks": len(final_chunks), "doc_id": doc_id}
chunk_metadata(metadata, idx, total, doc_id) ==
    [k \in DOMAIN metadata \cup {"chunk_index", "total_chunks", "doc_id"} |->
        CASE k = "chunk_index" -> idx
          [] k = "total_chunks" -> total
          [] k = "doc_id" -> doc_id
          [] OTHER -> metadata[k]]

\* "Create DocumentChunk objects": idx is 0-based as in the code
make_chunks(fc, metadata, doc_id) ==
    [i \in 1..Len(fc) |->
        [text |-> fc[i],
         metadata |-> chunk_metadata(metadata, i - 1, Len(fc), doc_id),
         chunk_id |-> chunk_id_of(doc_id, i - 1),
         start_offset |-> OffsetBefore(fc, i - 1),
         end_offset |-> OffsetBefore(fc, i - 1) + Len(fc[i])]]

\* ChunkingService.chunk_text
chunk_text(text, metadata, doc_id, c) ==
    IF text = <<>> \/ Strip(text) = <<>> THEN <<>>
    ELSE make_chunks(limit_chunks(untruncated_chunks(text, c), c), metadata, doc_id)

\* the texts of a list of DocumentChunk
TextsOf(cs) == [i \in 1..Len(cs) |-> cs[i].text]

(***************************************************************************)
(* The chunker as a state machine: one chunk_text call on drawn inputs     *)
(***************************************************************************)
ChunkSizes == 1..MaxChunkSize
ChunkOverlaps == {1, 2}
MaxChunkCounts == {1, 2}
DocIds == {"d1", "d2"}
\* caller metadata: none, and one that carries a key chunk_text sets itself
NoMetadata == [k \in {} |-> ""]
Metadatas == {NoMetadata, [k \in {"source", "doc_id"} |-> "caller"]}

Configs == [chunk_size : ChunkSizes, chunk_overlap : ChunkOverlaps, max_chunks : MaxChunkCounts]

ChunkInit ==
    /\ cfg \in Configs
    /\ doc \in [text : Texts, metadata : Metadatas, doc_id : {"d1"}]
    /\ cpc = "ready"
    /\ chunks = <<>>

\* the caller invokes chunk_text and it returns
ChunkText ==
    /\ cpc = "ready"
    /\ chunks' = chunk_text(doc.text, doc.metadata, doc.doc_id, cfg)
    /\ cpc' = "done"
    /\ UNCHANGED <<cfg, doc, storeVars, searchVars, cacheVars, bridgeVars>>


(***************************************************************************)
(* Properties of chunk_text                                                *)
(***************************************************************************)
ChunkDone == cpc = "done"
\* the chunk texts the call would return without the max_chunks limit
Untruncated == IF Strip(doc.text) = <<>> THEN <<>> ELSE untruncated_chunks(doc.text, cfg)
Truncated == Len(Untruncated) > cfg.max_chunks

\* C2: every chunk chunk_text returns has length at most 1.5 x chunk_size,
\* also for a document with a long run that has no sentence boundary.
C2_ChunkLengthBound ==
    ChunkDone => \A i \in 1..Len(chunks) : 2 * Len(chunks[i].text) <= 3 * cfg.chunk_size

\* runs of spaces reduced to one space
RECURSIVE SqueezeSpaces(_)
SqueezeSpaces(s) ==
    IF Len(s) < 2 THEN s
    ELSE IF s[1] = SP /\ s[2] = SP THEN SqueezeSpaces(Tail(s))
         ELSE <<s[1]>> \o SqueezeSpaces(Tail(s))

IsPrefix(p, s) == Len(p) <= Len(s) /\ SubSeq(s, 1, Len(p)) = p
IsSuffix(p, s) == Len(p) <= Len(s) /\ SubSeq(s, Len(s) - Len(p) + 1, Len(s)) = p

\* the leading overlap of chunk i (i > 1): what the sentence pass carried over
\* from chunk i - 1 when it closed it
LeadingOverlap(ts, i) == overlap_sentences(ts[i - 1])

\* the chunk texts concatenated in order, each without its leading overlap
RECURSIVE Reconstruct(_, _)
Reconstruct(ts, i) ==
    IF i > Len(ts) THEN <<>>
    ELSE (IF i = 1 THEN ts[1] ELSE Drop(ts[i], Len(LeadingOverlap(ts, i))))
         \o Reconstruct(ts, i + 1)

\* C3 as stated: for every document the chunks, concatenated in order with each
\* chunk's leading overlap removed, are exactly the normalized text.
C3_ReconstructsNormalizedText ==
    ChunkDone => Reconstruct(TextsOf(chunks), 1) = clean_text(doc.text)

\* C3 amended: the overlap removed from a chunk is a suffix of its predecessor;
\* the chunks without overlaps spell, up to the width of runs of spaces, a
\* prefix of the normalized text, all of it when the chunk list was not cut to
\* max_chunks, and exactly the normalized text when moreover that text has no
\* two adjacent spaces.
C3_ReconstructsUnlessTruncated ==
    ChunkDone =>
        LET ts == TextsOf(chunks)
            r == Reconstruct(ts, 1)
            n == clean_text(doc.text)
        IN  /\ \A i \in 2..Len(ts) :
                  /\ IsPrefix(LeadingOverlap(ts, i), ts[i])
                  /\ IsSuffix(LeadingOverlap(ts, i), ts[i - 1])
            /\ IsPrefix(SqueezeSpaces(r), SqueezeSpaces(n))
            /\ ~Truncated => SqueezeSpaces(r) = SqueezeSpaces(n)
            /\ (~Truncated /\ SqueezeSpaces(n) = n) => r = n

\* a document split into several chunks, none cut off, is reconstructed
C3_Witness ==
    /\ ChunkDone /\ Len(chunks) >= 2 /\ ~Truncated
    /\ Reconstruct(TextsOf(chunks), 1) = clean_text(doc.text)

\* C4: chunk_text returns at most max_chunks chunks, the first max_chunks of the
\* untruncated list when that is longer, and the call returns normally.
C4_AtMostMaxChunks ==
    ChunkDone =>
        /\ Len(chunks) <= cfg.max_chunks
        /\ TextsOf(chunks) = Take(Untruncated, cfg.max_chunks)

C4_Witness == ChunkDone /\ Truncated /\ Len(chunks) = cfg.max_chunks

\* no character of the text is printable: only whitespace and control characters
Blank(text) == \A i \in 1..Len(text) : IsSpace(text[i]) \/ IsControl(text[i])

\* C5: chunk_text returns the empty list for an input that is empty, all
\* whitespace, or left without a non-empty paragraph by normalization, and
\* every chunk it returns has a non-empty text.
C5_BlankGivesNoChunks ==
    ChunkDone =>
        /\ Blank(doc.text) => chunks = <<>>
        /\ \A i \in 1..Len(chunks) : chunks[i].text # <<>>

\* an input of control characters only, which passes the blank test of line 77
C5_Witness ==
    /\ ChunkDone /\ doc.text # <<>> /\ Strip(doc.text) # <<>>
    /\ Blank(doc.text) /\ chunks = <<>>

\* C6: the chunk at 0-based position i has chunk_id "{doc_id}_chunk_{i}",
\* metadata chunk_index = i, doc_id = doc_id and total_chunks = the number of
\* chunks returned (after the limit); the chunk ids of a call are distinct.
C6_ChunkIdentity ==
    ChunkDone =>
        /\ \A i \in 1..Len(chunks) :
              /\ chunks[i].chunk_id = <<doc.doc_id, "_chunk_", i - 1>>
              /\ chunks[i].metadata.chunk_index = i - 1
              /\ chunks[i].metadata.doc_id = doc.doc_id
              /\ chunks[i].metadata.total_chunks = Len(chunks)
        /\ \A i, j \in 1..Len(chunks) : chunks[i].chunk_id = chunks[j].chunk_id => i = j

\* a truncated list of two chunks whose caller metadata has its own doc_id key
C6_Witness ==
    /\ ChunkDone /\ Truncated /\ Len(chunks) = 2
    /\ "doc_id" \in DOMAIN doc.metadata /\ doc.metadata.doc_id # doc.doc_id
    /\ chunks[2].metadata.total_chunks = 2

(***************************************************************************)
(* One chunk_text call on longer documents over fewer characters, with     *)
(* chunk sizes that leave room between chunk_size and 1.5 x chunk_size     *)
(***************************************************************************)
MaxProseLen == 6
MaxProseChunkSize == 4
ProseAlphabet == {"a", ".", SP, NL}
ProseTexts == UNION {[1..n -> ProseAlphabet] : n \in 0..MaxProseLen}
ProseConfigs == [chunk_size : 3..MaxProseChunkSize, chunk_overlap : ChunkOverlaps,
                 max_chunks : {2, 500}]

ProseInit ==
    /\ cfg \in ProseConfigs
    /\ doc \in [text : ProseTexts, metadata : {NoMetadata}, doc_id : {"d1"}]
    /\ cpc = "ready"
    /\ chunks = <<>>

\* the text after _clean_text
Normalized == clean_text(doc.text)

\* C24 as stated: every document whose normalized text is longer than
\* chunk_size, lengths up to 1.5 x chunk_size included, comes out of chunk_text
\* as the sentence pass splits it.
C24_SentencePassAboveChunkSize ==
    (ChunkDone /\ Len(Normalized) > cfg.chunk_size) =>
        TextsOf(chunks) = limit_chunks(split_by_sentences(Normalized, cfg), cfg)

\* C24: a document whose normalized text is longer than 1.5 x chunk_size comes
\* out of chunk_text as the sentence pass splits it (up to the max_chunks
\* limit); a non-empty normalized text of at most 1.5 x chunk_size characters,
\* longer than chunk_size or not, comes out whole as one chunk.
C24_SentencePassAboveGuard ==
    (ChunkDone /\ Normalized # <<>>) =>
        TextsOf(chunks) =
            limit_chunks(IF 2 * Len(Normalized) > 3 * cfg.chunk_size
                         THEN split_by_sentences(Normalized, cfg)
                         ELSE <<Normalized>>, cfg)

\* a text longer than chunk_size but within the guard, which the sentence pass
\* would have split, came out whole
C24_Witness ==
    /\ ChunkDone /\ Len(Normalized) > cfg.chunk_size
    /\ 2 * Len(Normalized) <= 3 * cfg.chunk_size
    /\ Len(split_by_sentences(Normalized, cfg)) = 2
    /\ TextsOf(chunks) = <<Normalized>>

\* C25: in chunk_text the paragraph pass gives exactly one candidate, the
\* whole normalized text, for every document that normalization leaves
\* something of (and none otherwise), blank lines in the document or not; and
\* chunk_text returns the same chunks under every chunk_overlap.
C25_OneParagraphCandidate ==
    ChunkDone =>
        /\ semantic_chunk(Normalized, cfg) =
               IF Normalized = <<>> THEN <<>> ELSE <<Normalized>>
        /\ \A o \in 0..(MaxProseChunkSize + 1) :
               chunk_text(doc.text, doc.metadata, doc.doc_id,
                          [cfg EXCEPT !.chunk_overlap = o]) = chunks

\* two paragraphs, too long to share a chunk, came out of the paragraph pass as
\* one candidate
C25_Witness ==
    /\ ChunkDone /\ cfg.chunk_size = 3
    /\ doc.text = <<"a", "a", NL, NL, "a", "a">>
    /\ semantic_chunk(Normalized, cfg) = <<Normalized>>
    /\ TextsOf(chunks) = <<(<<"a", "a", SP, "a", "a">>)>>

(***************************************************************************)
(* IndexingService over the vector store                                   *)
(***************************************************************************)
\* tenant identifiers as the requests carry them
Brands == {<<"A", " ", "b">>, <<"a", "_", "b">>, <<"c">>}

\* str.lower() on one character
Lower(ch) == IF ch = "A" THEN "a" ELSE ch
\* str.replace(' ', '_') on one character
SpaceToUnderscore(ch) == IF ch = SP THEN "_" ELSE ch

\* f"{settings.chroma_collection_prefix}{brand_name.lower().replace(' ', '_')}"
collection_name_of(brand) ==
    <<"brand_">> \o [i \in 1..Len(brand) |-> SpaceToUnderscore(Lower(brand[i]))]

CollectionNames == {collection_name_of(b) : b \in Brands}

\* the store creates at most this many collections in a run
MaxCollections == 3

\* the 16 hex digits kept of the SHA-256 digest, scaled down to 16 bits
HashSpace == 65536

CharCode(ch) ==
    CASE ch = "a" -> 97 [] ch = "." -> 46 [] ch = "!" -> 33
      [] ch = SP -> 32 [] ch = NL -> 10 [] OTHER -> 0

\* hashlib.sha256(chunk.text.encode()).hexdigest()[:16]: a digest of the text alone
RECURSIVE Digest(_, _)
Digest(text, h) ==
    IF text = <<>> THEN h
    ELSE Digest(Tail(text), (h * 31 + CharCode(Head(text)) + 1) % HashSpace)

content_hash(text) == Digest(text, 7)

\* an id taken from the number of rows already stored instead of the content
persist_id_by_count(chunk, stored) == <<chunk.chunk_id, Cardinality(stored)>>

\* chunk_id = f"{chunk.chunk_id}_{chunk_hash}"
persist_id(chunk, stored) == <<chunk.chunk_id, content_hash(chunk.text)>>

\* the metadata index_chunks stores with a row
row_metadata(chunk) ==
    [k \in DOMAIN chunk.metadata \cup {"chunk_index", "start_offset", "end_offset"} |->
        CASE k = "chunk_index" ->
                 IF "chunk_index" \in DOMAIN chunk.metadata
                 THEN chunk.metadata.chunk_index ELSE 0
          [] k = "start_offset" -> chunk.start_offset
          [] k = "end_offset" -> chunk.end_offset
          [] OTHER -> chunk.metadata[k]]

\* the batch index_chunks hands to collection.add
batch_rows(cs, stored) ==
    {[id |-> persist_id(cs[i], stored), text |-> cs[i].text, metadata |-> row_metadata(cs[i])]
        : i \in 1..Len(cs)}

RowIds(rows) == {r.id : r \in rows}

NoCollection == [id |-> 0, rows |-> {}]
NoService == [collection_name |-> <<>>, collection |-> 0]

\* the state the handlers work on
World == [colls |-> colls, nextId |-> nextId, services |-> services]

Cached(w, brand) == w.services[brand].collection # 0

\* client.get_or_create_collection(name): the world after it; the handle is
\* the id of the collection now under that name
get_or_create_collection(w, name) ==
    IF w.colls[name].id # 0 THEN w
    ELSE [w EXCEPT !.colls[name] = [id |-> w.nextId + 1, rows |-> {}],
                   !.nextId = w.nextId + 1]

\* get_indexing_service(brand_name), with IndexingService.__init__
get_indexing_service(w, brand) ==
    IF Cached(w, brand) THEN w
    ELSE LET name == collection_name_of(brand)
             w1 == get_or_create_collection(w, name)
         IN  [w1 EXCEPT !.services[brand] =
                 [collection_name |-> name, collection |-> w1.colls[name].id]]

\* the service's self.collection is the collection the store holds under its name
Live(w, brand) ==
    LET svc == w.services[brand]
    IN  svc.collection # 0 /\ w.colls[svc.collection_name].id = svc.collection

\* what the service's collection handle reads
RowsOf(w, brand) == w.colls[w.services[brand].collection_name].rows

\* collection.add: rows whose id is already stored are left as they are
collection_add(w, brand, batch) ==
    LET name == w.services[brand].collection_name
        stored == w.colls[name].rows
    IN  [w EXCEPT !.colls[name].rows =
            stored \cup {r \in batch : r.id \notin RowIds(stored)}]

\* an index_chunks without the try/except around collection.add
index_chunks_unguarded(w, brand, cs, embed_fails, store_fails) ==
    IF cs = <<>> THEN [w |-> w, status |-> "returned", indexed |-> 0, failed |-> 0, ids |-> {}]
    ELSE IF embed_fails \/ store_fails \/ ~Live(w, brand)
         THEN [w |-> w, status |-> "raised", indexed |-> 0, failed |-> 0, ids |-> {}]
         ELSE [w |-> collection_add(w, brand, batch_rows(cs, RowsOf(w, brand))),
               status |-> "returned", indexed |-> Len(cs), failed |-> 0,
               ids |-> RowIds(batch_rows(cs, RowsOf(w, brand)))]

\* IndexingService.index_chunks on a service whose store call fails or not:
\* the world after it and what it returned
index_chunks(w, brand, cs, embed_fails, store_fails) ==
    LET ids == RowIds(batch_rows(cs, RowsOf(w, brand)))
    IN  IF cs = <<>>
        THEN [w |-> w, status |-> "returned", indexed |-> 0, failed |-> 0, ids |-> {}]
        ELSE IF embed_fails
             THEN [w |-> w, status |-> "raised", indexed |-> 0, failed |-> 0, ids |-> ids]
             ELSE IF store_fails \/ ~Live(w, brand)
                  THEN [w |-> w, status |-> "returned", indexed |-> 0,
                        failed |-> Len(cs), ids |-> ids]
                  ELSE [w |-> collection_add(w, brand, batch_rows(cs, RowsOf(w, brand))),
                        status |-> "returned", indexed |-> Len(cs), failed |-> 0,
                        ids |-> ids]

\* a delete_by_doc_id without the early return for an empty lookup
delete_by_doc_id_always_deletes(w, brand, doc_id, fail_at) ==
    LET name == w.services[brand].collection_name
        matching == {r \in RowsOf(w, brand) : r.metadata.doc_id = doc_id}
    IN  IF fail_at = "get" \/ ~Live(w, brand)
        THEN [w |-> w, deleted |-> 0, error |-> TRUE, calls |-> <<"get">>]
        ELSE IF fail_at = "delete"
             THEN [w |-> w, deleted |-> 0, error |-> TRUE, calls |-> <<"get", "delete">>]
             ELSE [w |-> [w EXCEPT !.colls[name].rows = @ \ matching],
                   deleted |-> Cardinality(matching), error |-> FALSE,
                   calls |-> <<"get", "delete">>]

\* a delete_by_doc_id that deletes without the ids it looked up
delete_by_doc_id_all_rows(w, brand, doc_id, fail_at) ==
    LET name == w.services[brand].collection_name
        matching == {r \in RowsOf(w, brand) : r.metadata.doc_id = doc_id}
    IN  IF fail_at = "get" \/ ~Live(w, brand)
        THEN [w |-> w, deleted |-> 0, error |-> TRUE, calls |-> <<"get">>]
        ELSE IF fail_at = "delete"
             THEN [w |-> w, deleted |-> 0, error |-> TRUE, calls |-> <<"get", "delete">>]
             ELSE [w |-> [w EXCEPT !.colls[name].rows = {}],
                   deleted |-> Cardinality(matching), error |-> FALSE,
                   calls |-> <<"get", "delete">>]

\* IndexingService.delete_by_doc_id; fail_at is the store call that fails
delete_by_doc_id(w, brand, doc_id, fail_at) ==
    LET name == w.services[brand].collection_name
        matching == {r \in RowsOf(w, brand) : r.metadata.doc_id = doc_id}
    IN  IF fail_at = "get" \/ ~Live(w, brand)
        THEN [w |-> w, deleted |-> 0, error |-> TRUE, calls |-> <<"get">>]
        ELSE IF matching = {}
             THEN [w |-> w, deleted |-> 0, error |-> FALSE, calls |-> <<"get">>]
             ELSE IF fail_at = "delete"
                  THEN [w |-> w, deleted |-> 0, error |-> TRUE, calls |-> <<"get", "delete">>]
                  ELSE [w |-> [w EXCEPT !.colls[name].rows = @ \ matching],
                        deleted |-> Cardinality(matching), error |-> FALSE,
                        calls |-> <<"get", "delete">>]

\* a clear_all that counts the rows after the collection was made anew
clear_all_counts_after(w, brand, fail_at) ==
    LET name == w.services[brand].collection_name
        dropped == [w EXCEPT !.colls[name] = NoCollection]
        made == get_or_create_collection(dropped, name)
    IN  IF fail_at \in {"count", "delete"} \/ ~Live(w, brand)
        THEN [w |-> w, deleted |-> 0, error |-> TRUE]
        ELSE IF fail_at = "create"
             THEN [w |-> dropped, deleted |-> 0, error |-> TRUE]
             ELSE [w |-> [made EXCEPT !.services[brand].collection = made.colls[name].id],
                   deleted |-> Cardinality(made.colls[name].rows), error |-> FALSE]

\* IndexingService.clear_all; fail_at is the store call that fails
clear_all(w, brand, fail_at) ==
    LET name == w.services[brand].collection_name
        count == Cardinality(RowsOf(w, brand))
        dropped == [w EXCEPT !.colls[name] = NoCollection]
        made == get_or_create_collection(dropped, name)
    IN  IF fail_at \in {"count", "delete"} \/ ~Live(w, brand)
        THEN [w |-> w, deleted |-> 0, error |-> TRUE]
        ELSE IF fail_at = "create"
             THEN [w |-> dropped, deleted |-> 0, error |-> TRUE]
             ELSE [w |-> [made EXCEPT !.services[brand].collection = made.colls[name].id],
                   deleted |-> count, error |-> FALSE]

\* collection.peek(limit=10)
PeekLimit == 10
\* settings.embedding_dimension, what get_dimension() reports
EmbeddingDimension == 384

\* the samples collection.peek(limit) may return: limit rows, all when there are fewer
PeekSamples(rows) ==
    IF Cardinality(rows) <= PeekLimit THEN {rows}
    ELSE {sm \in SUBSET rows : Cardinality(sm) = PeekLimit}

\* IndexingService.get_stats
get_stats(w, brand, sample, store_fails) ==
    IF store_fails \/ ~Live(w, brand) THEN [error |-> TRUE]
    ELSE [error |-> FALSE,
          collection_name |-> w.services[brand].collection_name,
          total_chunks |-> Cardinality(RowsOf(w, brand)),
          sample_doc_count |-> Cardinality({r.metadata.doc_id : r \in sample}),
          embedding_dimension |-> EmbeddingDimension]

(***************************************************************************)
(* The service as a state machine: one action per request handler          *)
(* (api/routes.py)                                                         *)
(***************************************************************************)
\* the ChunkingService() of the routes: the settings, scaled to the alphabet
ServiceConfig == [chunk_size |-> 2, chunk_overlap |-> 1, max_chunks |-> 2]

\* the documents requests carry: a blank one and one of two chunks
RequestTexts == {<<SP>>, <<"a", ".", SP, "a">>}

\* chunking_svc.chunk_text(text=request.text, metadata=request.metadata or {},
\* doc_id=request.doc_id) for every request the model sends
RequestChunks ==
    [t \in RequestTexts, d \in DocIds |-> chunk_text(t, NoMetadata, d, ServiceConfig)]

\* how an index request can go: no failure, the embedding call raises, the
\* store's add raises
IndexFaults == {"none", "embed", "store"}

StoreInit ==
    /\ colls = [n \in CollectionNames |-> NoCollection]
    /\ nextId = 0
    /\ services = [b \in Brands |-> NoService]
    /\ last = [op |-> "none"]

\* the handler can reach its service: cached, or the store can still make a collection
CanServe(brand) ==
    ~ (/\ ~Cached(World, brand)
       /\ colls[collection_name_of(brand)].id = 0
       /\ nextId >= MaxCollections)

\* the handler leaves the world w; no chunker or retriever state is involved
SetWorld(w) ==
    /\ colls' = w.colls
    /\ nextId' = w.nextId
    /\ services' = w.services
    /\ UNCHANGED <<chunkVars, searchVars, cacheVars, bridgeVars>>

\* POST /index.  The record of the request keeps, beside what index_chunks
\* returned: the fault injected, whether the service's handle was live, the
\* ids handed to collection.add, and whether the request repeats the one just
\* handled (same brand, doc id and text, and that one was indexed).
IndexDocument(brand, doc_id, text, fault) ==
    /\ CanServe(brand)
    /\ LET w1 == get_indexing_service(World, brand)
           cs == RequestChunks[text, doc_id]
           r == index_chunks(w1, brand, cs, fault = "embed", fault = "store")
           repeats == /\ last.op = "index" /\ last.indexed > 0
                      /\ last.brand = brand /\ last.doc_id = doc_id /\ last.text = text
       IN  IF cs = <<>>
           THEN /\ SetWorld(w1)
                /\ last' = [op |-> "index", brand |-> brand, doc_id |-> doc_id,
                            text |-> text, n |-> 0, status |-> "no_chunks",
                            indexed |-> 0, failed |-> 0, ids |-> {},
                            fault |-> fault, live |-> Live(w1, brand), repeats |-> FALSE]
           ELSE /\ SetWorld(r.w)
                /\ last' = [op |-> "index", brand |-> brand, doc_id |-> doc_id,
                            text |-> text, n |-> Len(cs), status |-> r.status,
                            indexed |-> r.indexed, failed |-> r.failed, ids |-> r.ids,
                            fault |-> fault, live |-> Live(w1, brand), repeats |-> repeats]

\* POST /delete.  The record keeps, beside what delete_by_doc_id returned, the
\* store calls it made, the fault injected and whether the handle was live.
DeleteDocument(brand, doc_id, fail_at) ==
    /\ CanServe(brand)
    /\ LET w1 == get_indexing_service(World, brand)
           r == delete_by_doc_id(w1, brand, doc_id, fail_at)
       IN  /\ SetWorld(r.w)
           /\ last' = [op |-> "delete", brand |-> brand, doc_id |-> doc_id,
                       deleted |-> r.deleted, error |-> r.error, calls |-> r.calls,
                       fault |-> fail_at, live |-> Live(w1, brand)]

\* POST /clear
ClearCollection(brand, fail_at) ==
    /\ CanServe(brand)
    /\ LET w1 == get_indexing_service(World, brand)
           r == clear_all(w1, brand, fail_at)
       IN  /\ ~ (fail_at = "none" /\ Live(w1, brand) /\ w1.nextId >= MaxCollections)
           /\ SetWorld(r.w)
           /\ last' = [op |-> "clear", brand |-> brand, deleted |-> r.deleted,
                       error |-> r.error, fault |-> fail_at, live |-> Live(w1, brand)]

\* POST /stats
GetStats(brand, store_fails) ==
    /\ CanServe(brand)
    /\ LET w1 == get_indexing_service(World, brand)
       IN  \E sample \in PeekSamples(RowsOf(w1, brand)) :
               /\ SetWorld(w1)
               /\ last' = [op |-> "stats", brand |-> brand,
                           stats |-> get_stats(w1, brand, sample, store_fails)]

(***************************************************************************)
(* Properties of the indexer                                               *)
(***************************************************************************)
\* the rows a tenant's search and get_stats read: those of the collection
\* under the tenant's collection name
VisibleRows(brand) == colls[collection_name_of(brand)].rows

\* C1: distinct tenant identifiers have distinct collections: a request of one
\* tenant never changes the rows another tenant's search or get_stats reads.
C1_TenantIsolation ==
    [][\A b \in Brands :
          (last'.op # "none" /\ last'.brand # b) => VisibleRows(b)' = VisibleRows(b)]_vars

\* C7: index_chunks on N > 0 chunks returns {indexed: N, failed: 0} when the
\* store took the batch and {indexed: 0, failed: N}, without raising, when the
\* store's add failed; whenever it returns, indexed + failed = N and one of the
\* two is 0.
C7_AllOrNothing ==
    (last.op = "index" /\ last.n > 0) =>
        /\ last.status = "returned" =>
              /\ last.indexed + last.failed = last.n
              /\ last.indexed = 0 \/ last.failed = 0
        /\ (last.fault = "store" \/ (last.fault = "none" /\ ~last.live)) =>
              /\ last.status = "returned"
              /\ last.indexed = 0 /\ last.failed = last.n
        /\ (last.fault = "none" /\ last.live) =>
              /\ last.status = "returned"
              /\ last.indexed = last.n /\ last.failed = 0
              /\ last.ids \subseteq RowIds(VisibleRows(last.brand))

\* the store's add failed on a batch of several chunks, and the call returned
C7_Witness ==
    /\ last.op = "index" /\ last.n > 1 /\ last.fault = "store"
    /\ last.status = "returned" /\ last.failed = last.n

\* C8: an index request that repeats the one before it (same brand, doc id and
\* text, the first one indexed) derives the same persistence ids and leaves the
\* set of row ids of the tenant's collection as the first request left it.
C8_ReindexIdempotent ==
    [][(last'.op = "index" /\ last'.repeats) =>
          /\ last'.ids = last.ids
          /\ RowIds(VisibleRows(last.brand))' = RowIds(VisibleRows(last.brand))]_vars

\* the second of two equal index requests was accepted by the store
C8_Witness ==
    /\ last.op = "index" /\ last.repeats /\ last.indexed = 2
    /\ last.ids \subseteq RowIds(VisibleRows(last.brand))


\* the rows of the collection under the brand's name whose metadata doc_id is d
RowsOfDoc(brand, d) == {r \in VisibleRows(brand) : r.metadata.doc_id = d}

\* C16: after a delete_by_doc_id(d) that met no store failure the tenant's
\* collection has no row of doc_id d, has every other row as it was, and the
\* deleted count is the number of rows of doc_id d before the call.
C16_DeleteRemovesDocument ==
    [][(last'.op = "delete" /\ last'.fault = "none" /\ last'.live) =>
          /\ ~last'.error
          /\ colls'[collection_name_of(last'.brand)].rows =
                 VisibleRows(last'.brand) \ RowsOfDoc(last'.brand, last'.doc_id)
          /\ last'.deleted = Cardinality(RowsOfDoc(last'.brand, last'.doc_id))]_vars

\* two rows of one document deleted, the rows of another document left
C16_Witness ==
    /\ last.op = "delete" /\ last.fault = "none" /\ last.live
    /\ last.deleted = 2 /\ RowsOfDoc(last.brand, last.doc_id) = {}
    /\ VisibleRows(last.brand) # {}

\* C17: delete_by_doc_id for a doc id without rows (the lookup succeeding)
\* returns deleted = 0 and no error, sends no delete to the store and leaves the
\* collection as it was.
C17_DeleteOfUnknownDocument ==
    [][(/\ last'.op = "delete" /\ last'.fault # "get" /\ last'.live
        /\ RowsOfDoc(last'.brand, last'.doc_id) = {}) =>
          /\ last'.deleted = 0 /\ ~last'.error
          /\ last'.calls = <<"get">>
          /\ \A n \in CollectionNames : colls'[n].rows = colls[n].rows]_vars

\* a delete for a doc id without rows in a collection that holds other rows,
\* on a store whose delete would have failed
C17_Witness ==
    /\ last.op = "delete" /\ last.fault = "delete" /\ last.live
    /\ last.calls = <<"get">> /\ last.deleted = 0 /\ ~last.error
    /\ VisibleRows(last.brand) # {}

\* C18: a clear_all that met no store failure returns the number of rows the
\* tenant's collection held before the call and leaves the collection existing
\* and empty; it stays empty until an index call (no other request adds rows),
\* and get_stats after the clear reports total_chunks = 0.
C18_ClearEmptiesCollection ==
    [][/\ (last'.op = "clear" /\ last'.fault = "none" /\ last'.live) =>
             /\ ~last'.error
             /\ last'.deleted = Cardinality(VisibleRows(last'.brand))
             /\ colls'[collection_name_of(last'.brand)].id # 0
             /\ colls'[collection_name_of(last'.brand)].rows = {}
             /\ services'[last'.brand].collection = colls'[collection_name_of(last'.brand)].id
       /\ last'.op \in {"delete", "stats", "clear"} =>
             \A b \in Brands : colls'[collection_name_of(b)].rows \subseteq VisibleRows(b)
       /\ (/\ last.op = "clear" /\ ~last.error /\ last'.op = "stats"
           /\ last'.brand = last.brand /\ ~last'.stats.error) =>
             last'.stats.total_chunks = 0]_vars

\* a collection of four rows cleared: deleted = 4 and nothing left
C18_Witness ==
    /\ last.op = "clear" /\ last.fault = "none" /\ last.live /\ ~last.error
    /\ last.deleted = 4 /\ VisibleRows(last.brand) = {}
    /\ colls[collection_name_of(last.brand)].id # 0

\* C26: after any sequence of index, delete, clear and stats requests over any
\* tenant identifiers, every cached IndexingService holds a handle to the
\* collection the store now has under the service's collection name.
C26_NoStaleHandle ==
    \A b \in Brands : Cached(World, b) => Live(World, b)

(***************************************************************************)
(* SearchService: two-stage search                                         *)
(***************************************************************************)
\* similarities and distances are in tenths: 1 - distance is SimilarityOne - d
SimilarityOne == 10
\* settings.similarity_threshold = 0.5
SimilarityThreshold == 5
\* settings.default_top_k
DefaultTopK == 10
\* settings.rerank_top_k
RerankTopK == 5

\* the largest top_k a request asks for; 0 stands for None and for 0
MaxTopK == 2

\* distances the store reports: similarity 1, 0.5, 0 and -0.2
Distances == {0, 5, 10, 12}
\* scores the cross-encoder gives
Scores == {1, 2, 3}

\* top_k or default
OrDefault(top_k, default) == IF top_k = 0 THEN default ELSE top_k

\* where=filter_metadata: None, or {"doc_id": doc_id}
Matches(row, filter) == filter = "none" \/ row.metadata.doc_id = filter

\* collection.query(query_embeddings, n_results, where): the n_results nearest
\* of the rows that match, nearest first, each with its distance.  q.nearest
\* lists the stored rows nearest first and q.dist their distances.
collection_query(q, n_results, filter) ==
    LET cands == [i \in 1..Len(q.nearest) |->
                     [id |-> q.nearest[i].id, text |-> q.nearest[i].text,
                      metadata |-> q.nearest[i].metadata, distance |-> q.dist[i], pos |-> i]]
        Match(c) == Matches(c, filter)
    IN  Take(SelectSeq(cands, Match), n_results)

\* if result['similarity'] and result['similarity'] >= settings.similarity_threshold,
\* for any setting of the threshold: a similarity of 0 is falsy
passes_threshold(similarity, threshold) == similarity # 0 /\ similarity >= threshold

\* the same test under the default setting
PassesThreshold(similarity) == passes_threshold(similarity, SimilarityThreshold)

\* "Format results" and "Filter by similarity threshold": the loop over the rows
\* the collection returned, given by their distances, nearest first
format_results(distances, threshold) ==
    LET formatted == [i \in 1..Len(distances) |->
                        [distance |-> distances[i],
                         similarity |-> SimilarityOne - distances[i], pos |-> i]]
        Keep(r) == passes_threshold(r.similarity, threshold)
    IN  SelectSeq(formatted, Keep)

\* an IndexingService.search whose collection.query is outside any try
indexing_search_unguarded(w, brand, q, top_k, filter) ==
    LET k == OrDefault(top_k, DefaultTopK)
        raw == collection_query(q, k, filter)
        formatted == [i \in 1..Len(raw) |->
                        [id |-> raw[i].id, text |-> raw[i].text, metadata |-> raw[i].metadata,
                         distance |-> raw[i].distance,
                         similarity |-> SimilarityOne - raw[i].distance, pos |-> raw[i].pos]]
        Keep(r) == PassesThreshold(r.similarity)
    IN  IF q.fault \in {"embed", "query"} \/ ~Live(w, brand)
        THEN [status |-> "raised", results |-> <<>>, n_results |-> 0, embeds |-> 1]
        ELSE [status |-> "returned", results |-> SelectSeq(formatted, Keep),
              n_results |-> k, embeds |-> 1]

\* IndexingService.search: how it ended, the formatted results, and the calls
\* it made (n_results is what it asked the collection for)
indexing_search(w, brand, q, top_k, filter) ==
    LET k == OrDefault(top_k, DefaultTopK)
        raw == collection_query(q, k, filter)
        formatted == [i \in 1..Len(raw) |->
                        [id |-> raw[i].id, text |-> raw[i].text, metadata |-> raw[i].metadata,
                         distance |-> raw[i].distance,
                         similarity |-> SimilarityOne - raw[i].distance, pos |-> raw[i].pos]]
        Keep(r) == PassesThreshold(r.similarity)
    IN  IF q.fault = "embed"
        THEN [status |-> "raised", results |-> <<>>, n_results |-> 0, embeds |-> 1]
        ELSE IF q.fault = "query" \/ ~Live(w, brand)
             THEN [status |-> "returned", results |-> <<>>, n_results |-> k, embeds |-> 1]
             ELSE [status |-> "returned", results |-> SelectSeq(formatted, Keep),
                   n_results |-> k, embeds |-> 1]

\* list.sort(key=lambda x: x[1], reverse=True): the place of one more pair in a
\* list already sorted, behind the pairs whose score is not smaller
RECURSIVE InsertByScore(_, _)
InsertByScore(sorted, pair) ==
    IF sorted = <<>> THEN <<pair>>
    ELSE IF Head(sorted)[2] >= pair[2]
         THEN <<Head(sorted)>> \o InsertByScore(Tail(sorted), pair)
         ELSE <<pair>> \o sorted

RECURSIVE SortByScore(_, _)
SortByScore(pairs, sorted) ==
    IF pairs = <<>> THEN sorted
    ELSE SortByScore(Tail(pairs), InsertByScore(sorted, Head(pairs)))

\* a rerank that sorts ascending: reverse=True forgotten
rerank_ascending(scores, top_k) ==
    LET pairs == [i \in 1..Len(scores) |-> <<i, 0 - scores[i]>>]
        sorted == SortByScore(pairs, <<>>)
    IN  Take([i \in 1..Len(sorted) |-> <<sorted[i][1], 0 - sorted[i][2]>>],
             OrDefault(top_k, RerankTopK))

\* RerankerService.rerank: scores[i] is what the model predicts for document i;
\* the (index, score) pairs, best first, cut to top_k.  Indexes are 1-based here.
rerank(scores, top_k) ==
    IF scores = <<>> THEN <<>>
    ELSE Take(SortByScore([i \in 1..Len(scores) |-> <<i, scores[i]>>], <<>>),
              OrDefault(top_k, RerankTopK))

\* a _rerank_results that numbers the hits by their stage-1 position
rerank_results_stage1_rank(initial, q, top_k) ==
    LET order == rerank([i \in 1..Len(initial) |-> q.scores[initial[i].pos]], top_k)
    IN  [k \in 1..Len(order) |->
            [text |-> initial[order[k][1]].text, score |-> initial[order[k][1]].similarity,
             metadata |-> initial[order[k][1]].metadata, chunk_id |-> initial[order[k][1]].id,
             rank |-> order[k][1], rerank_score |-> {order[k][2]}]]

\* a _rerank_results that reports the rerank score as the hit's score
rerank_results_score_replaced(initial, q, top_k) ==
    LET order == rerank([i \in 1..Len(initial) |-> q.scores[initial[i].pos]], top_k)
    IN  [k \in 1..Len(order) |->
            [text |-> initial[order[k][1]].text, score |-> order[k][2],
             metadata |-> initial[order[k][1]].metadata, chunk_id |-> initial[order[k][1]].id,
             rank |-> k, rerank_score |-> {order[k][2]}]]

\* SearchService._rerank_results; rerank_score is {} for None
rerank_results(initial, q, top_k) ==
    LET order == rerank([i \in 1..Len(initial) |-> q.scores[initial[i].pos]], top_k)
    IN  [k \in 1..Len(order) |->
            [text |-> initial[order[k][1]].text, score |-> initial[order[k][1]].similarity,
             metadata |-> initial[order[k][1]].metadata, chunk_id |-> initial[order[k][1]].id,
             rank |-> k, rerank_score |-> {order[k][2]}]]

\* a "No reranking" branch that lists the results farthest first
plain_results_reversed(initial, top_k) ==
    LET n == Min(top_k, Len(initial))
    IN  [k \in 1..n |->
            [text |-> initial[n + 1 - k].text, score |-> initial[n + 1 - k].similarity,
             metadata |-> initial[n + 1 - k].metadata, chunk_id |-> initial[n + 1 - k].id,
             rank |-> k, rerank_score |-> {}]]

\* the "No reranking" branch of SearchService.search
plain_results(initial, top_k) ==
    [k \in 1..Min(top_k, Len(initial)) |->
        [text |-> initial[k].text, score |-> initial[k].similarity,
         metadata |-> initial[k].metadata, chunk_id |-> initial[k].id,
         rank |-> k, rerank_score |-> {}]]

\* a search that asks stage 1 for top_k rows whether or not it reranks
search_no_oversampling(w, brand, has_reranker, q) ==
    LET top_k == OrDefault(q.top_k, DefaultTopK)
        two_stage == q.use_reranking /\ has_reranker
        stage1 == indexing_search(w, brand, q, top_k, q.filter)
        initial == stage1.results
    IN  IF stage1.status = "raised"
        THEN [status |-> "raised", hits |-> <<>>, initial |-> <<>>,
              n_results |-> stage1.n_results, embeds |-> stage1.embeds, reranks |-> 0]
        ELSE IF initial = <<>>
             THEN [status |-> "returned", hits |-> <<>>, initial |-> initial,
                   n_results |-> stage1.n_results, embeds |-> stage1.embeds, reranks |-> 0]
             ELSE IF two_stage
                  THEN [status |-> "returned", hits |-> rerank_results(initial, q, top_k),
                        initial |-> initial, n_results |-> stage1.n_results,
                        embeds |-> stage1.embeds, reranks |-> 1]
                  ELSE [status |-> "returned", hits |-> plain_results(initial, top_k),
                        initial |-> initial, n_results |-> stage1.n_results,
                        embeds |-> stage1.embeds, reranks |-> 0]

\* SearchService.search
search(w, brand, has_reranker, q) ==
    LET top_k == OrDefault(q.top_k, DefaultTopK)
        two_stage == q.use_reranking /\ has_reranker
        retrieval_k == IF two_stage THEN top_k * 2 ELSE top_k
        stage1 == indexing_search(w, brand, q, retrieval_k, q.filter)
        initial == stage1.results
    IN  IF stage1.status = "raised"
        THEN [status |-> "raised", hits |-> <<>>, initial |-> <<>>,
              n_results |-> stage1.n_results, embeds |-> stage1.embeds, reranks |-> 0]
        ELSE IF initial = <<>>
             THEN [status |-> "returned", hits |-> <<>>, initial |-> initial,
                   n_results |-> stage1.n_results, embeds |-> stage1.embeds, reranks |-> 0]
             ELSE IF two_stage
                  THEN [status |-> "returned", hits |-> rerank_results(initial, q, top_k),
                        initial |-> initial, n_results |-> stage1.n_results,
                        embeds |-> stage1.embeds, reranks |-> 1]
                  ELSE [status |-> "returned", hits |-> plain_results(initial, top_k),
                        initial |-> initial, n_results |-> stage1.n_results,
                        embeds |-> stage1.embeds, reranks |-> 0]

\* the largest max_tokens a context request asks for
MaxTokens == 2
\* "Estimate ~4 chars per token"
CharsPerToken == 4
\* self.search(query, top_k=10, use_reranking=use_reranking)
ContextTopK == 10
\* "\n\n---\n\n"
ContextDelimiter == <<NL, NL, "-", "-", "-", NL, NL>>

\* a loop that tests the total before a text is added, not with it
RECURSIVE ContextLoop_late_test(_, _, _, _)
ContextLoop_late_test(results, i, acc, max_chars) ==
    IF i > Len(results) \/ acc.total_chars > max_chars
    THEN acc
    ELSE ContextLoop_late_test(results, i + 1,
             [parts |-> Append(acc.parts, results[i].text),
              sources |-> Append(acc.sources,
                                 [chunk_id |-> results[i].chunk_id, score |-> results[i].score,
                                  rank |-> results[i].rank, metadata |-> results[i].metadata]),
              total_chars |-> acc.total_chars + Len(results[i].text)],
             max_chars)

\* a loop that passes over a hit that does not fit and goes on to the next
RECURSIVE ContextLoop_skips(_, _, _, _)
ContextLoop_skips(results, i, acc, max_chars) ==
    IF i > Len(results)
    THEN acc
    ELSE IF acc.total_chars + Len(results[i].text) > max_chars
         THEN ContextLoop_skips(results, i + 1, acc, max_chars)
         ELSE ContextLoop_skips(results, i + 1,
                  [parts |-> Append(acc.parts, results[i].text),
                   sources |-> Append(acc.sources,
                                      [chunk_id |-> results[i].chunk_id,
                                       score |-> results[i].score,
                                       rank |-> results[i].rank,
                                       metadata |-> results[i].metadata]),
                   total_chars |-> acc.total_chars + Len(results[i].text)],
                  max_chars)

\* "Combine results until we hit max_chars": the loop from result i on
RECURSIVE ContextLoop(_, _, _, _)
ContextLoop(results, i, acc, max_chars) ==
    IF i > Len(results) \/ acc.total_chars + Len(results[i].text) > max_chars
    THEN acc
    ELSE ContextLoop(results, i + 1,
             [parts |-> Append(acc.parts, results[i].text),
              sources |-> Append(acc.sources,
                                 [chunk_id |-> results[i].chunk_id, score |-> results[i].score,
                                  rank |-> results[i].rank, metadata |-> results[i].metadata]),
              total_chars |-> acc.total_chars + Len(results[i].text)],
             max_chars)

\* SearchService.get_context; q.max_tokens is the max_tokens argument
get_context(w, brand, has_reranker, q) ==
    LET max_chars == q.max_tokens * CharsPerToken
        r == search(w, brand, has_reranker, [q EXCEPT !.top_k = ContextTopK, !.filter = "none"])
        acc == ContextLoop(r.hits, 1, [parts |-> <<>>, sources |-> <<>>, total_chars |-> 0],
                           max_chars)
    IN  IF r.status = "raised"
        THEN [status |-> "raised", hits |-> <<>>]
        ELSE [status |-> "returned", hits |-> r.hits,
              context |-> Join(ContextDelimiter, acc.parts),
              sources |-> acc.sources,
              total_chars |-> acc.total_chars,
              num_sources |-> Len(acc.sources)]

(***************************************************************************)
(* The retriever as a state machine: one search call on a populated index  *)
(***************************************************************************)
SearchBrand == <<"c">>

\* the index searched: a document of two chunks and one of one chunk
SearchWorld ==
    LET w0 == [colls |-> [n \in CollectionNames |-> NoCollection], nextId |-> 0,
               services |-> [b \in Brands |-> NoService]]
        w1 == get_indexing_service(w0, SearchBrand)
        w2 == index_chunks(w1, SearchBrand,
                           chunk_text(<<"a", ".", SP, "a">>, NoMetadata, "d1", ServiceConfig),
                           FALSE, FALSE).w
    IN  index_chunks(w2, SearchBrand,
                     chunk_text(<<"a">>, NoMetadata, "d2", ServiceConfig), FALSE, FALSE).w

SearchRows == SearchWorld.colls[collection_name_of(SearchBrand)].rows

\* the orders in which the store can list the rows
Orderings(rows) ==
    {f \in [1..Cardinality(rows) -> rows] : \A i, j \in DOMAIN f : f[i] = f[j] => i = j}

NonDecreasing(d) == \A i \in 1..(Len(d) - 1) : d[i] <= d[i + 1]

SearchIdle ==
    /\ reranker = FALSE
    /\ query = [op |-> "none"]
    /\ spc = "ready"
    /\ found = [status |-> "none"]

SearchInit ==
    /\ colls = SearchWorld.colls
    /\ nextId = SearchWorld.nextId
    /\ services = SearchWorld.services
    /\ last = [op |-> "none"]
    /\ reranker \in BOOLEAN
    /\ query \in {q \in [top_k : 0..MaxTopK, use_reranking : BOOLEAN,
                         filter : {"none", "d1"},
                         nearest : Orderings(SearchRows),
                         dist : [1..Cardinality(SearchRows) -> Distances],
                         scores : [1..Cardinality(SearchRows) -> Scores],
                         fault : {"none", "embed", "query"}] : NonDecreasing(q.dist)}
    /\ spc = "ready"
    /\ found = [status |-> "none"]

\* POST /search: search_svc.search(query, top_k, use_reranking)
Search ==
    /\ spc = "ready"
    /\ found' = search(World, SearchBrand, reranker, query)
    /\ spc' = "done"
    /\ UNCHANGED <<chunkVars, storeVars, reranker, query, cacheVars, bridgeVars>>

(***************************************************************************)
(* One get_context call on the populated index                             *)
(***************************************************************************)
ContextInit ==
    /\ colls = SearchWorld.colls
    /\ nextId = SearchWorld.nextId
    /\ services = SearchWorld.services
    /\ last = [op |-> "none"]
    /\ reranker \in BOOLEAN
    /\ query \in {q \in [max_tokens : 0..MaxTokens, top_k : {0}, use_reranking : BOOLEAN,
                         filter : {"none"},
                         nearest : Orderings(SearchRows),
                         dist : [1..Cardinality(SearchRows) -> Distances],
                         scores : [1..Cardinality(SearchRows) -> Scores],
                         fault : {"none", "embed", "query"}] : NonDecreasing(q.dist)}
    /\ spc = "ready"
    /\ found = [status |-> "none"]

\* POST /context: search_svc.get_context(query, max_tokens)
GetContext ==
    /\ spc = "ready"
    /\ found' = get_context(World, SearchBrand, reranker, query)
    /\ spc' = "done"
    /\ UNCHANGED <<chunkVars, storeVars, reranker, query, cacheVars, bridgeVars>>

(***************************************************************************)
(* Properties of search                                                    *)
(***************************************************************************)
SearchDone == spc = "done" /\ found.status = "returned"
\* top_k as search uses it: the argument, or default_top_k for None or 0 (line 87)
EffectiveTopK == OrDefault(query.top_k, DefaultTopK)
TwoStage == query.use_reranking /\ reranker

\* C9: with or without reranking a search returns at most top_k hits (top_k as
\* line 87 leaves it: default_top_k when the argument is absent or 0) and the
\* hit at 1-based position i has rank i.
C9_DenseRanks ==
    SearchDone =>
        /\ Len(found.hits) <= EffectiveTopK
        /\ \A i \in 1..Len(found.hits) : found.hits[i].rank = i

\* a reranked result, cut to top_k, whose first hit was not the nearest candidate
C9_Witness ==
    /\ SearchDone /\ TwoStage /\ query.top_k = 2
    /\ Len(found.initial) = 3 /\ Len(found.hits) = 2
    /\ found.hits[1].chunk_id # found.initial[1].id
    /\ found.hits[2].rank = 2

\* the place in the threshold-filtered stage-1 list of the candidate a hit shows
StagePos(hit) == CHOOSE i \in 1..Len(found.initial) : found.initial[i].id = hit.chunk_id
\* the score the reranker gave the candidate at a place of that list
StageScore(i) == query.scores[found.initial[i].pos]

\* C10: with reranking requested and a reranker configured, the result is the
\* threshold-filtered stage-1 candidates by rerank score descending, candidates
\* of equal score in stage-1 order, cut to the first top_k; no candidate shows
\* twice.
C10_RerankOrder ==
    (SearchDone /\ TwoStage) =>
        LET hits == found.hits
            n == Len(found.initial)
            shown == {StagePos(hits[k]) : k \in 1..Len(hits)}
            Before(i, j) == StageScore(i) > StageScore(j)
                            \/ (StageScore(i) = StageScore(j) /\ i < j)
        IN  /\ \A k \in 1..Len(hits) :
                  /\ \E i \in 1..n : found.initial[i].id = hits[k].chunk_id
                  /\ hits[k].rerank_score = {StageScore(StagePos(hits[k]))}
            /\ Len(hits) = Min(EffectiveTopK, n)
            /\ Cardinality(shown) = Len(hits)
            /\ \A k, l \in 1..Len(hits) : k < l => Before(StagePos(hits[k]), StagePos(hits[l]))
            /\ \A i \in shown, j \in (1..n) \ shown : Before(i, j)

\* three candidates of one rerank score, two returned: the two nearest, in
\* stage-1 order, behind no better candidate
C10_Witness ==
    /\ SearchDone /\ TwoStage /\ query.top_k = 2
    /\ Len(found.initial) = 3 /\ Len(found.hits) = 2
    /\ StageScore(1) = StageScore(2) /\ StageScore(2) = StageScore(3)
    /\ found.hits[1].chunk_id = found.initial[1].id
    /\ found.hits[2].chunk_id = found.initial[2].id

\* the place of a hit's chunk in the order the store lists the rows
NearestPos(hit) == CHOOSE i \in 1..Len(query.nearest) : query.nearest[i].id = hit.chunk_id
\* the places, nearest first, of the rows the filter admits
RECURSIVE MatchingPlaces(_)
MatchingPlaces(i) ==
    IF i > Len(query.nearest) THEN <<>>
    ELSE (IF Matches(query.nearest[i], query.filter) THEN <<i>> ELSE <<>>)
         \o MatchingPlaces(i + 1)
\* the places of the k nearest admitted rows whose similarity reaches the threshold
RECURSIVE OverThreshold(_)
OverThreshold(places) ==
    IF places = <<>> THEN <<>>
    ELSE (IF SimilarityOne - query.dist[Head(places)] >= SimilarityThreshold
          THEN <<Head(places)>> ELSE <<>>) \o OverThreshold(Tail(places))
FilteredStageOne(k) == OverThreshold(Take(MatchingPlaces(1), k))

\* C11: without reranking (not requested, or no reranker configured) the result
\* is the first top_k of the threshold-filtered stage-1 hits, in non-increasing
\* similarity order, whatever order the store gives rows of equal distance.
\* (The store answering: a failed query is the case of C13.)
C11_PlainOrder ==
    (SearchDone /\ ~TwoStage /\ query.fault = "none") =>
        LET hits == found.hits
            expected == Take(FilteredStageOne(EffectiveTopK), EffectiveTopK)
        IN  /\ Len(hits) = Len(expected)
            /\ \A k \in 1..Len(hits) :
                  /\ hits[k].chunk_id = query.nearest[expected[k]].id
                  /\ hits[k].text = query.nearest[expected[k]].text
            /\ \A k, l \in 1..Len(hits) : k < l => hits[k].score >= hits[l].score

\* reranking asked for but no reranker configured: two hits of different
\* similarity, the third row beyond top_k
C11_Witness ==
    /\ SearchDone /\ query.use_reranking /\ ~reranker /\ query.top_k = 2
    /\ Len(found.hits) = 2 /\ found.hits[1].score > found.hits[2].score
    /\ query.dist[3] <= SimilarityThreshold

\* C12: every hit carries as score the stage-1 similarity (1 - distance) of its
\* own chunk; rerank_score is on every hit when reranking was requested and a
\* reranker is configured, and on no hit otherwise.
C12_ScoreIsSimilarity ==
    SearchDone =>
        \A k \in 1..Len(found.hits) :
            /\ \E i \in 1..Len(query.nearest) : query.nearest[i].id = found.hits[k].chunk_id
            /\ found.hits[k].score = SimilarityOne - query.dist[NearestPos(found.hits[k])]
            /\ found.hits[k].text = query.nearest[NearestPos(found.hits[k])].text
            /\ found.hits[k].metadata = query.nearest[NearestPos(found.hits[k])].metadata
            /\ TwoStage => found.hits[k].rerank_score # {}
            /\ ~TwoStage => found.hits[k].rerank_score = {}

\* reranking put a less similar chunk first; its score is still its similarity
C12_Witness ==
    /\ SearchDone /\ TwoStage /\ Len(found.hits) = 2
    /\ found.hits[1].score < found.hits[2].score
    /\ found.hits[1].rerank_score = {3} /\ found.hits[2].rerank_score = {1}

\* C13: a failure of the collection's query during search does not reach the
\* caller: search returns the empty list, the reranker is not called and the
\* collection is as it was.
C13_SearchFailureIsEmpty ==
    (spc = "done" /\ query.fault = "query") =>
        /\ found.status = "returned"
        /\ found.hits = <<>>
        /\ found.reranks = 0
        /\ colls = SearchWorld.colls

\* the query failed though rows would have matched, a reranker being configured
C13_Witness ==
    /\ spc = "done" /\ query.fault = "query" /\ TwoStage
    /\ FilteredStageOne(2 * EffectiveTopK) # <<>>
    /\ found.status = "returned" /\ found.hits = <<>>

\* retrieval_k of line 91: what search asks stage 1 for
RetrievalK == IF TwoStage THEN 2 * EffectiveTopK ELSE EffectiveTopK

\* C21 as stated: stage 1 is asked for 2 x top_k rows whenever use_reranking is
\* true and for top_k rows whenever it is false, and the query is embedded once.
C21_OversampleWhenRequested ==
    SearchDone =>
        /\ found.n_results = IF query.use_reranking THEN 2 * EffectiveTopK ELSE EffectiveTopK
        /\ found.embeds = 1

\* C21: stage 1 is asked for 2 x top_k rows when use_reranking is true and the
\* service has a reranker, and for top_k rows otherwise (reranking not asked
\* for, or no reranker loaded); every search call embeds the query once.
C21_RetrievalK ==
    /\ SearchDone => found.n_results = RetrievalK
    /\ spc = "done" => found.embeds = 1

\* top_k = 2 with reranking: four rows asked for, and all three there are came
C21_Witness ==
    /\ SearchDone /\ TwoStage /\ query.top_k = 2
    /\ found.n_results = 4 /\ found.embeds = 1
    /\ Len(found.initial) = 3 /\ Len(found.hits) = 2

(***************************************************************************)
(* The threshold filter under any setting of similarity_threshold          *)
(***************************************************************************)
\* settings of similarity_threshold: -0.2, 0 and the default 0.5
Thresholds == {-2, 0, SimilarityThreshold}
\* the most rows the collection returns to the filter
MaxRaw == 3

FilterInit ==
    /\ reranker = FALSE
    /\ query \in {q \in [similarity_threshold : Thresholds,
                         dist : UNION {[1..n -> Distances] : n \in 0..MaxRaw}] :
                     NonDecreasing(q.dist)}
    /\ spc = "ready"
    /\ found = [status |-> "none"]

\* the formatting loop of IndexingService.search on the collection's answer
FilterResults ==
    /\ spc = "ready"
    /\ found' = [status |-> "returned",
                 results |-> format_results(query.dist, query.similarity_threshold)]
    /\ spc' = "done"
    /\ UNCHANGED <<chunkVars, storeVars, reranker, query, cacheVars, bridgeVars>>

\* C22: a row the collection returned is passed on if and only if its
\* similarity is at least similarity_threshold, a row of similarity exactly 0
\* under a threshold of 0 or less included.
C22_PassedIffAtLeastThreshold ==
    spc = "done" =>
        \A i \in 1..Len(query.dist) :
            (\E j \in 1..Len(found.results) : found.results[j].pos = i)
                <=> (SimilarityOne - query.dist[i] >= query.similarity_threshold)

(***************************************************************************)
(* Properties of get_context                                               *)
(***************************************************************************)
ContextDone == spc = "done" /\ found.status = "returned"
MaxChars == query.max_tokens * CharsPerToken

\* the sum of the lengths of the texts of the first n hits
RECURSIVE TextLengthSum(_, _)
TextLengthSum(hits, n) == IF n = 0 THEN 0 ELSE Len(hits[n].text) + TextLengthSum(hits, n - 1)

\* C14: for max_tokens >= 0 the total_chars get_context reports is at most
\* max_tokens x 4 and is the sum of the text lengths of the hits in sources.
C14_TotalCharsBound ==
    ContextDone =>
        /\ found.total_chars <= MaxChars
        /\ found.num_sources = Len(found.sources)
        /\ found.num_sources <= Len(found.hits)
        /\ \A i \in 1..found.num_sources : found.sources[i].chunk_id = found.hits[i].chunk_id
        /\ found.total_chars = TextLengthSum(found.hits, found.num_sources)

\* the loop stopped at a hit that did not fit, after one that did
C14_Witness ==
    /\ ContextDone /\ found.num_sources >= 1 /\ found.num_sources < Len(found.hits)
    /\ found.total_chars + Len(found.hits[found.num_sources + 1].text) > MaxChars

\* C15: the context text itself, delimiters included, is at most max_tokens x 4
\* characters long.
C15_ContextTextBound ==
    ContextDone => Len(found.context) <= MaxChars

\* C23: get_context includes exactly the longest prefix of the search result
\* whose texts together have at most max_tokens x 4 characters: it stops at the
\* first hit that does not fit and takes no later one; sources has one entry
\* per included hit, in order, with ranks 1..num_sources, at most 10 of them.
C23_LongestFittingPrefix ==
    ContextDone =>
        LET n == found.num_sources
        IN  /\ n = Len(found.sources) /\ n <= Len(found.hits) /\ n <= ContextTopK
            /\ \A i \in 1..n : /\ found.sources[i].chunk_id = found.hits[i].chunk_id
                                /\ found.sources[i].score = found.hits[i].score
                                /\ found.sources[i].rank = i
            /\ found.context = Join(ContextDelimiter, [i \in 1..n |-> found.hits[i].text])
            /\ TextLengthSum(found.hits, n) <= MaxChars
            /\ n < Len(found.hits) => TextLengthSum(found.hits, n + 1) > MaxChars

\* the second hit did not fit and the third, which would have, was left out
C23_Witness ==
    /\ ContextDone /\ Len(found.hits) = 3 /\ found.num_sources = 1
    /\ found.total_chars + Len(found.hits[2].text) > MaxChars
    /\ found.total_chars + Len(found.hits[3].text) <= MaxChars

(***************************************************************************)
(* The scenario of documents made of a repeated word                       *)
(***************************************************************************)
\* "word " repeated n times
WordDoc(n) == [i \in 1..(5 * n) |-> <<"w", "o", "r", "d", SP>>[((i - 1) % 5) + 1]]

\* The scenario at 1/32 of its size: 2000 characters, chunk_size 512 and
\* chunk_overlap 50 become 60 characters (12 words), chunk_size 16 and
\* chunk_overlap 2, so that the document is again a little under four times
\* chunk_size and longer than 1.5 x chunk_size.
ScenarioDoc == WordDoc(12)
ScenarioConfig == [chunk_size |-> 16, chunk_overlap |-> 2, max_chunks |-> 500]

\* the documents and configurations tried beside the scenario's
ScenarioDocs == {WordDoc(n) : n \in 1..12}
ScenarioConfigs == [chunk_size : 12..16, chunk_overlap : {1, 2}, max_chunks : {500}]

ScenarioInit ==
    /\ cfg \in ScenarioConfigs
    /\ doc \in [text : ScenarioDocs, metadata : {NoMetadata}, doc_id : {"d1"}]
    /\ cpc = "ready"
    /\ chunks = <<>>

\* C20: the document of repeated "word " a little under four times chunk_size
\* long (2000 characters for chunk_size 512 and chunk_overlap 50) gives exactly
\* 4 chunks, each of at most 1.5 x chunk_size characters (768), each after the
\* first beginning with the last chunk_overlap characters of the one before it.
C20_RepeatedWordScenario ==
    (ChunkDone /\ doc.text = ScenarioDoc /\ cfg = ScenarioConfig) =>
        /\ Len(chunks) = 4
        /\ \A i \in 1..Len(chunks) : 2 * Len(chunks[i].text) <= 3 * cfg.chunk_size
        /\ \A i \in 2..Len(chunks) :
              IsPrefix(Tail_overlap(chunks[i - 1].text, cfg.chunk_overlap), chunks[i].text)

(***************************************************************************)
(* get_indexing_service and get_search_service under concurrent callers    *)
(***************************************************************************)
\* the callers that may be inside the two functions at once
MaxCallers == 2
Callers == 1..MaxCallers
\* the tenants asked for
CacheBrands == {<<"c">>, <<"a", "_", "b">>}

\* a caller outside both functions
Outside == [pc |-> "idle", kind |-> "none", brand |-> <<>>, made |-> 0]

\* _indexing_services = {} and _search_services = {}: 0 stands for no entry, an
\* instance is known by the number it was constructed as
CacheInit ==
    /\ threads = [t \in Callers |-> Outside]
    /\ registry = [indexing_services |-> [b \in CacheBrands |-> 0],
                   search_services |-> [b \in CacheBrands |-> 0],
                   constructed |-> 0,
                   indexers |-> [b \in CacheBrands |-> {}],
                   searchers |-> [b \in CacheBrands |-> {}],
                   indexers_handed |-> [b \in CacheBrands |-> {}],
                   searchers_handed |-> [b \in CacheBrands |-> {}]]

\* no caller ever enters the two functions
CacheIdle ==
    /\ threads = [t \in Callers |-> Outside]
    /\ registry = [constructed |-> 0]

CacheStep(t, now) ==
    /\ threads' = [threads EXCEPT ![t] = now]
    /\ UNCHANGED <<chunkVars, storeVars, searchVars, bridgeVars>>

\* a request handler calls get_indexing_service(brand) or get_search_service(brand)
CallGetService(t, kind, brand) ==
    /\ threads[t].pc = "idle"
    /\ CacheStep(t, [pc |-> IF kind = "search" THEN "search_check" ELSE "indexing_check",
                     kind |-> kind, brand |-> brand, made |-> 0])
    /\ UNCHANGED registry

\* if brand_name not in _search_services
SearchCheck(t) ==
    /\ threads[t].pc = "search_check"
    /\ CacheStep(t, [threads[t] EXCEPT !.pc =
                        IF registry.search_services[threads[t].brand] = 0
                        THEN "indexing_check" ELSE "search_return"])
    /\ UNCHANGED registry

\* if brand_name not in _indexing_services (called by a handler, or by
\* SearchService.__init__)
IndexingCheck(t) ==
    /\ threads[t].pc = "indexing_check"
    /\ CacheStep(t, [threads[t] EXCEPT !.pc =
                        IF registry.indexing_services[threads[t].brand] = 0
                        THEN "indexing_init" ELSE "indexing_return"])
    /\ UNCHANGED registry

\* IndexingService(brand_name): a new instance
IndexingConstruct(t) ==
    /\ threads[t].pc = "indexing_init"
    /\ CacheStep(t, [threads[t] EXCEPT !.pc = "indexing_store",
                                        !.made = registry.constructed + 1])
    /\ registry' = [registry EXCEPT !.constructed = @ + 1,
                                    !.indexers[threads[t].brand] = @ \cup {registry.constructed + 1}]

\* _indexing_services[brand_name] = the instance just made
IndexingStore(t) ==
    /\ threads[t].pc = "indexing_store"
    /\ CacheStep(t, [threads[t] EXCEPT !.pc = "indexing_return"])
    /\ registry' = [registry EXCEPT !.indexing_services[threads[t].brand] = threads[t].made]

\* return _indexing_services[brand_name]: to the handler, or into
\* SearchService.__init__, which goes on to finish the SearchService
IndexingReturn(t) ==
    /\ threads[t].pc = "indexing_return"
    /\ CacheStep(t, [threads[t] EXCEPT !.pc = IF threads[t].kind = "search"
                                              THEN "search_init" ELSE "idle"])
    /\ registry' = [registry EXCEPT !.indexers_handed[threads[t].brand] =
                        @ \cup {registry.indexing_services[threads[t].brand]}]

\* SearchService(brand_name) is complete: a new instance
SearchConstruct(t) ==
    /\ threads[t].pc = "search_init"
    /\ CacheStep(t, [threads[t] EXCEPT !.pc = "search_store",
                                        !.made = registry.constructed + 1])
    /\ registry' = [registry EXCEPT !.constructed = @ + 1,
                                    !.searchers[threads[t].brand] = @ \cup {registry.constructed + 1}]

\* _search_services[brand_name] = the instance just made
SearchStore(t) ==
    /\ threads[t].pc = "search_store"
    /\ CacheStep(t, [threads[t] EXCEPT !.pc = "search_return"])
    /\ registry' = [registry EXCEPT !.search_services[threads[t].brand] = threads[t].made]

\* return _search_services[brand_name]
SearchReturn(t) ==
    /\ threads[t].pc = "search_return"
    /\ CacheStep(t, [threads[t] EXCEPT !.pc = "idle"])
    /\ registry' = [registry EXCEPT !.searchers_handed[threads[t].brand] =
                        @ \cup {registry.search_services[threads[t].brand]}]

\* C19: under any interleaving of the callers, for every tenant exactly one
\* IndexingService and one SearchService are ever constructed, and every call
\* of get_indexing_service / get_search_service returns that one instance.
C19_OneInstancePerTenant ==
    \A b \in CacheBrands :
        /\ Cardinality(registry.indexers[b]) <= 1
        /\ Cardinality(registry.searchers[b]) <= 1
        /\ Cardinality(registry.indexers_handed[b]) <= 1
        /\ Cardinality(registry.searchers_handed[b]) <= 1

(***************************************************************************)
(* oracle_bridge: the command loop over one collection                     *)
(***************************************************************************)
\* the most lines the process is given
MaxLines == 2
\* document ids the requests name
BridgeIds == {"x", "y"}
BridgeCommands == {"add", "search", "update", "delete", "list"}

\* request.get("data"): absent or null, a JSON value that is no object, or an
\* object with some of the fields the functions read
BridgeData ==
    {[kind |-> "null", fields |-> {}, id |-> ""], [kind |-> "text", fields |-> {}, id |-> ""],
     [kind |-> "object", fields |-> {}, id |-> ""],
     [kind |-> "object", fields |-> {"query"}, id |-> ""]}
    \cup [kind : {"object"}, fields : {{"id"}, {"id", "document", "metadata"}}, id : BridgeIds]

\* data has the keys a function subscripts
HasFields(data, fields) == data.kind = "object" /\ fields \subseteq data.fields

\* the request reaches a method of the collection
ReachesCollection(command, data) ==
    CASE command \in {"add", "update"} -> HasFields(data, {"id", "document", "metadata"})
      [] command = "search" -> HasFields(data, {"query"})
      [] command = "delete" -> HasFields(data, {"id"})
      [] command = "list" -> data.kind = "object"
      [] OTHER -> FALSE

\* an input line: text that is no JSON, a JSON value that is no object, or a
\* request object; fault says that the collection raises when this request
\* calls it
BridgeLines ==
    {[json |-> "invalid"], [json |-> "value"]}
    \cup {l \in [json : {"object"}, command : BridgeCommands \cup {"reset", "none"},
                 data : BridgeData, fault : BOOLEAN] :
             l.fault => ReachesCollection(l.command, l.data)}

\* {"status": "error", "message": ...}
ErrorResponse(message) == [status |-> "error", message |-> message]

\* what a function of the bridge gives back: the collection after it, its return
\* value, and whether an exception left it
Returned(c, response) == [collection |-> c, response |-> response, raised |-> FALSE]
Raised(c) == [collection |-> c, response |-> ErrorResponse("raised"), raised |-> TRUE]

\* a call of a method of the collection, noted with the command that made it
Called(c, command) == [c EXCEPT !.calls = Append(@, command)]

\* add_document(data)
add_document(c, data, fault) ==
    IF ~HasFields(data, {"document", "metadata", "id"})
    THEN Returned(c, ErrorResponse("str(e)"))
    ELSE IF fault
         THEN Returned(Called(c, "add"), ErrorResponse("str(e)"))
         ELSE Returned([Called(c, "add") EXCEPT !.rows = @ \cup {data.id}],
                       [status |-> "success", id |-> data.id])

\* search(data)
bridge_search(c, data, fault) ==
    IF ~HasFields(data, {"query"})
    THEN Returned(c, ErrorResponse("str(e)"))
    ELSE IF fault
         THEN Returned(Called(c, "search"), ErrorResponse("str(e)"))
         ELSE Returned(Called(c, "search"), [status |-> "success", results |-> c.rows])

\* update_document(data)
update_document(c, data, fault) ==
    IF ~HasFields(data, {"id", "document", "metadata"})
    THEN Returned(c, ErrorResponse("str(e)"))
    ELSE IF fault
         THEN Returned(Called(c, "update"), ErrorResponse("str(e)"))
         ELSE Returned(Called(c, "update"), [status |-> "success", id |-> data.id])

\* delete_document(data)
delete_document(c, data, fault) ==
    IF ~HasFields(data, {"id"})
    THEN Returned(c, ErrorResponse("str(e)"))
    ELSE IF fault
         THEN Returned(Called(c, "delete"), ErrorResponse("str(e)"))
         ELSE Returned([Called(c, "delete") EXCEPT !.rows = @ \ {data.id}],
                       [status |-> "success", id |-> data.id])

\* list_documents(data): data.get('limit', 10) needs an object, no field of it
list_documents(c, data, fault) ==
    IF data.kind # "object"
    THEN Returned(c, ErrorResponse("str(e)"))
    ELSE IF fault
         THEN Returned(Called(c, "list"), ErrorResponse("str(e)"))
         ELSE Returned(Called(c, "list"), [status |-> "success", results |-> c.rows])

\* a loop body whose try has the handler of json.JSONDecodeError only
main_body_decode_errors_only(c, line) ==
    IF line.json = "invalid" THEN Returned(c, ErrorResponse("Invalid JSON"))
    ELSE IF line.json # "object" THEN Raised(c)
    ELSE CASE line.command = "add" -> add_document(c, line.data, line.fault)
           [] line.command = "search" -> bridge_search(c, line.data, line.fault)
           [] line.command = "update" -> update_document(c, line.data, line.fault)
           [] line.command = "delete" -> delete_document(c, line.data, line.fault)
           [] line.command = "list" -> list_documents(c, line.data, line.fault)
           [] OTHER -> Returned(c, ErrorResponse("Unknown command"))

\* the try statement of main's loop on one line: json.loads, request.get on
\* what it gave, the dispatch on the command, and the two handlers
main_body(c, line) ==
    IF line.json = "invalid" THEN Returned(c, ErrorResponse("Invalid JSON"))
    ELSE IF line.json # "object" THEN Returned(c, ErrorResponse("str(e)"))
    ELSE CASE line.command = "add" -> add_document(c, line.data, line.fault)
           [] line.command = "search" -> bridge_search(c, line.data, line.fault)
           [] line.command = "update" -> update_document(c, line.data, line.fault)
           [] line.command = "delete" -> delete_document(c, line.data, line.fault)
           [] line.command = "list" -> list_documents(c, line.data, line.fault)
           [] OTHER -> Returned(c, ErrorResponse("Unknown command"))

\* the process before it reads a line: the collection as the store has it,
\* with the documents in rows
BridgeStart(rows) ==
    [pos |-> 0, running |-> TRUE, collection |-> [rows |-> rows, calls |-> <<>>]]

BridgeInit ==
    /\ stdin \in UNION {[1..n -> BridgeLines] : n \in 0..MaxLines}
    /\ stdout = <<>>
    /\ bridge = BridgeStart({"x"})

\* the bridge process is not run
BridgeIdle ==
    /\ stdin = <<>>
    /\ stdout = <<>>
    /\ bridge = BridgeStart({})

\* one turn of "for line in sys.stdin": the try statement, then the write of
\* json.dumps(response) and a newline; an exception that leaves the try
\* statement ends the loop before the write
ProcessLine ==
    /\ bridge.running
    /\ bridge.pos < Len(stdin)
    /\ LET r == main_body(bridge.collection, stdin[bridge.pos + 1])
       IN  /\ bridge' = [pos |-> bridge.pos + 1, running |-> ~r.raised,
                         collection |-> r.collection]
           /\ stdout' = IF r.raised THEN stdout ELSE Append(stdout, r.response)
    /\ UNCHANGED <<stdin, chunkVars, storeVars, searchVars, cacheVars>>

\* the line asks for something the bridge cannot do: no JSON, no object, a
\* command it does not know, data without the fields the command reads, or a
\* collection that raises
FailingLine(line) ==
    \/ line.json # "object"
    \/ line.command \notin BridgeCommands
    \/ ~ReachesCollection(line.command, line.data)
    \/ line.fault

\* the response written for a line is the one that line calls for
AnswersLine(response, line) ==
    /\ response.status = IF FailingLine(line) THEN "error" ELSE "success"
    /\ (~FailingLine(line) /\ line.command \in {"add", "update", "delete"})
           => response.id = line.data.id

\* the lines read so far whose request went to the collection, in order
RECURSIVE CollectionCommands(_, _)
CollectionCommands(lines, n) ==
    IF n = 0 THEN <<>>
    ELSE CollectionCommands(lines, n - 1)
         \o (IF lines[n].json = "object" /\ ReachesCollection(lines[n].command, lines[n].data)
             THEN <<lines[n].command>> ELSE <<>>)

\* what holds of the loop at every moment
BridgeInOrder ==
    /\ bridge.running
    /\ Len(stdout) = bridge.pos /\ bridge.pos <= Len(stdin)
    /\ \A i \in 1..Len(stdout) : AnswersLine(stdout[i], stdin[i])
    /\ bridge.collection.calls = CollectionCommands(stdin, bridge.pos)
    /\ \A k \in 1..Len(bridge.collection.calls) : bridge.collection.calls[k] \in BridgeCommands

\* C27: the command loop writes exactly one response line for every input
\* line, in input order, and goes on after any failure: a line that is no
\* JSON or no object, an unknown command, missing data fields and an exception
\* of the collection each give a response of status "error"; only add, search,
\* update, delete and list requests call the collection; every line is
\* answered in the end.
C27_OneResponsePerLine ==
    /\ []BridgeInOrder
    /\ <>(Len(stdout) = Len(stdin))

\* a line that is no JSON was answered with an error and the add after it done
C27_Witness ==
    /\ Len(stdin) = 2 /\ Len(stdout) = 2
    /\ stdin[1].json = "invalid" /\ stdout[1].status = "error"
    /\ stdin[2].json = "object" /\ stdin[2].command = "add"
    /\ stdout[2] = [status |-> "success", id |-> "y"]
    /\ "y" \in bridge.collection.rows

(***************************************************************************)
(* Specifications                                                          *)
(***************************************************************************)
\* the chunker's variables while the request handlers run
ChunkIdle ==
    /\ cfg = ServiceConfig
    /\ doc = [text |-> <<>>, metadata |-> NoMetadata, doc_id |-> "d1"]
    /\ cpc = "ready"
    /\ chunks = <<>>

InitChunk == ChunkInit /\ StoreInit /\ SearchIdle /\ CacheIdle /\ BridgeIdle

NextChunk == ChunkText

\* one chunk_text call on any input, the store idle
SpecChunk == InitChunk /\ [][NextChunk]_vars

Init == StoreInit /\ ChunkIdle /\ SearchIdle /\ CacheIdle /\ BridgeIdle

Next ==
    \/ \E b \in Brands, d \in DocIds, t \in RequestTexts, f \in IndexFaults :
           IndexDocument(b, d, t, f)
    \/ \E b \in Brands, d \in DocIds, f \in {"none", "get", "delete"} :
           DeleteDocument(b, d, f)
    \/ \E b \in Brands, f \in {"none", "count", "delete", "create"} :
           ClearCollection(b, f)
    \/ \E b \in Brands, sf \in BOOLEAN : GetStats(b, sf)

\* the request handlers over the store, in any order
Spec == Init /\ [][Next]_vars

InitSearch == SearchInit /\ ChunkIdle /\ CacheIdle /\ BridgeIdle

NextSearch == Search

\* one search call on any arguments and provider answers, the index populated
SpecSearch == InitSearch /\ [][NextSearch]_vars

InitContext == ContextInit /\ ChunkIdle /\ CacheIdle /\ BridgeIdle

NextContext == GetContext

\* one get_context call on any arguments and provider answers, the index populated
SpecContext == InitContext /\ [][NextContext]_vars

InitFilter == FilterInit /\ ChunkIdle /\ StoreInit /\ CacheIdle /\ BridgeIdle

NextFilter == FilterResults

\* the threshold filter on any answer of the collection, under any threshold
SpecFilter == InitFilter /\ [][NextFilter]_vars

InitScenario == ScenarioInit /\ StoreInit /\ SearchIdle /\ CacheIdle /\ BridgeIdle

\* one chunk_text call on a document of the scenario
SpecScenario == InitScenario /\ [][NextChunk]_vars

InitProse == ProseInit /\ StoreInit /\ SearchIdle /\ CacheIdle /\ BridgeIdle

\* one chunk_text call on a longer document over fewer characters
SpecProse == InitProse /\ [][NextChunk]_vars

InitCache == CacheInit /\ ChunkIdle /\ StoreInit /\ SearchIdle /\ BridgeIdle

NextCache ==
    \/ \E t \in Callers, k \in {"indexing", "search"}, b \in CacheBrands :
           CallGetService(t, k, b)
    \/ \E t \in Callers : SearchCheck(t)
    \/ \E t \in Callers : IndexingCheck(t)
    \/ \E t \in Callers : IndexingConstruct(t)
    \/ \E t \in Callers : IndexingStore(t)
    \/ \E t \in Callers : IndexingReturn(t)
    \/ \E t \in Callers : SearchConstruct(t)
    \/ \E t \in Callers : SearchStore(t)
    \/ \E t \in Callers : SearchReturn(t)

\* callers entering get_indexing_service and get_search_service at any time,
\* their steps interleaved
SpecCache == InitCache /\ [][NextCache]_vars

InitBridge == BridgeInit /\ ChunkIdle /\ StoreInit /\ SearchIdle /\ CacheIdle

NextBridge == ProcessLine

\* the command loop on any lines
SpecBridge == InitBridge /\ [][NextBridge]_vars

\* the loop takes the next line whenever there is one
SpecBridgeFair == SpecBridge /\ WF_vars(NextBridge)

====
